---------------------------- MODULE Spec2Model ----------------------------
(***************************************************************************)
(* typed-rest-client: URL resolution (Util.getUrl), the query-parameter    *)
(* composer (prepareUrlWithQueryParams), the REST facade's response        *)
(* processing (RestClient._processResponse) and the request dispatcher     *)
(* with its credential handlers.                                           *)
(*                                                                         *)
(* Strings are sequences of one-character strings.  The JavaScript values  *)
(* undefined, null and '' of a string-typed field are all the empty        *)
(* sequence: the code only ever tests such fields for falsiness, except    *)
(* where a null pathname reaches path.resolve, which is modelled as the    *)
(* TypeError it raises.                                                    *)
(***************************************************************************)
EXTENDS Naturals, Integers, Sequences, FiniteSets, TLC

VARIABLES
    \* ---- Util.getUrl ----
    upc,              \* "call" before the call, "done" after it
    resource,         \* argument: resource
    baseUrl,          \* argument: baseUrl (<<>> when absent)
    queryParameters,  \* options.queryParameters: [given, params, sep, eq]
    requestUrl,       \* the local requestUrl after lines 20-42
    returned,         \* the string getUrl returned
    threw,            \* TRUE when getUrl raised instead of returning
    \* ---- one RestClient verb call and its _processResponse ----
    verb,             \* the verb method called
    options,          \* the call's IRequestOptions: [responseProcessor]
    response,         \* the HttpClientResponse res: [statusCode, readFails, contents]
    ppc,              \* "idle", "request", "start", "readBody", "end"
    rres,             \* the IRestResponse object: [statusCode, result]
    promise,          \* the promise's state: "pending", "fulfilled", "rejected"
    err,              \* the Error the promise was rejected with
    resolveCalls,     \* how often resolve was called
    rejectCalls,      \* how often reject was called
    caller,           \* what the awaiting caller got: [state, statusCode, result]
    \* ---- the request dispatcher and its credential handlers ----
    handlers,         \* the handler list given at construction (kinds, in order)
    patterns,         \* the configured presigned-URL patterns
    target,           \* the host of the target URL
    dpc,              \* the dispatcher's position
    prepared,         \* the handlers whose prepareRequest ran, in order of invocation
    headers,          \* the outgoing request's headers
    wire,             \* the messages sent so far
    first,            \* the response to the first send
    type2,            \* TRUE once the Type-2 challenge was received
    conn,             \* the handshake's connection: [open]
    interruptedAt,    \* Len(wire) when the connection was interrupted, -1 before
    authCalls,        \* the handlers whose handleAuthentication ran
    handled,          \* the response handleAuthentication came back with
    final,            \* what the dispatcher returned: [kind, statusCode, www]
    \* ---- the headers of the verb calls made with one options object ----
    sharedOptions,    \* the caller's options: [passed, acceptHeader, hasAdditionalHeaders]
    additionalHeaders,\* the object options.additionalHeaders refers to ("" = no such key)
    asWritten,        \* that object as the caller wrote it
    sent              \* per verb call so far, in order: [verb, headers handed to the client]

urlVars == <<upc, resource, baseUrl, queryParameters, requestUrl, returned, threw>>

restVars == <<verb, options, response, ppc, rres, promise, err, resolveCalls, rejectCalls, caller>>

dispVars == <<handlers, patterns, target, dpc, prepared, headers, wire, first, type2, conn,
              interruptedAt, authCalls, handled, final>>

headVars == <<sharedOptions, additionalHeaders, asWritten, sent>>

-----------------------------------------------------------------------------
(* String helpers (String.prototype.indexOf / lastIndexOf / slice)         *)

Take(s, n) == SubSeq(s, 1, n)

Drop(s, n) == SubSeq(s, n + 1, Len(s))

StartsWith(s, p) == Len(s) >= Len(p) /\ SubSeq(s, 1, Len(p)) = p

EndsWithCh(s, c) == Len(s) > 0 /\ s[Len(s)] = c

\* first position (1-based) of a character of C in s, 0 when there is none
FirstIdx(s, C) ==
    IF \E i \in 1..Len(s) : s[i] \in C
    THEN CHOOSE i \in 1..Len(s) : s[i] \in C /\ \A j \in 1..(i - 1) : s[j] \notin C
    ELSE 0

\* last position <= lim of character c in s, 0 when there is none
LastIdx(s, c, lim) ==
    IF \E i \in 1..lim : s[i] = c
    THEN CHOOSE i \in 1..lim : s[i] = c /\ \A j \in (i + 1)..lim : s[j] # c
    ELSE 0

RECURSIVE Flatten(_)
Flatten(ss) == IF ss = <<>> THEN <<>> ELSE Head(ss) \o Flatten(Tail(ss))

-----------------------------------------------------------------------------
(* Node's legacy url module, as far as getUrl uses it                      *)

Digits == {"0", "1", "2", "3", "4", "5", "6", "7", "8", "9"}

Letters == {"a", "b", "c", "f", "g", "h", "k", "m", "n", "p", "q", "s", "t",
            "u", "v", "w", "x", "A", "D", "F"}

\* protocolPattern = /^[a-z0-9.+-]+:/i
ProtoChars == Letters \cup Digits \cup {".", "+", "-"}

HTTP == <<"h", "t", "t", "p", ":">>

HTTPS == <<"h", "t", "t", "p", "s", ":">>

\* slashedProtocol: the protocols that always carry '//'
SlashedProtocol == {HTTP, HTTPS, <<"f", "t", "p", ":">>}

HostEndingChars == {"/", "?", "#"}

NonHostChars == {"/", "?", "#", "%", ";"}

\* length of the leading run of protocol characters
ProtoRun(s) ==
    LET k == FirstIdx(s, {s[i] : i \in 1..Len(s)} \ ProtoChars)
    IN  IF k = 0 THEN Len(s) ELSE k - 1

\* rest.match(/^\/\/[^@\/]+@[^@\/]+/)
AuthPattern(r) ==
    /\ StartsWith(r, <<"/", "/">>)
    /\ LET t == Drop(r, 2)
           k == FirstIdx(t, {"@", "/"})
       IN  k > 1 /\ t[k] = "@" /\ Len(t) > k /\ t[k + 1] \notin {"@", "/"}

\* decodeURIComponent, for the escapes the alphabet can spell
RECURSIVE DecodeURIComponent(_)
DecodeURIComponent(s) ==
    IF s = <<>> THEN <<>>
    ELSE IF StartsWith(s, <<"%", "3", "A">>) THEN <<":">> \o DecodeURIComponent(Drop(s, 3))
    ELSE IF StartsWith(s, <<"%", "4", "0">>) THEN <<"@">> \o DecodeURIComponent(Drop(s, 3))
    ELSE IF StartsWith(s, <<"%", "2", "0">>) THEN <<" ">> \o DecodeURIComponent(Drop(s, 3))
    ELSE <<Head(s)>> \o DecodeURIComponent(Tail(s))

\* the percent-escape of one character under encodeURIComponent / querystring.escape
EscapeChar(c) ==
    CASE c = ":" -> <<"%", "3", "A">>
      [] c = "@" -> <<"%", "4", "0">>
      [] c = " " -> <<"%", "2", "0">>
      [] c = "/" -> <<"%", "2", "F">>
      [] c = "?" -> <<"%", "3", "F">>
      [] c = "#" -> <<"%", "2", "3">>
      [] c = "&" -> <<"%", "2", "6">>
      [] c = "=" -> <<"%", "3", "D">>
      [] c = ";" -> <<"%", "3", "B">>
      [] c = "%" -> <<"%", "2", "5">>
      [] OTHER -> <<c>>

EncodeURIComponent(s) == Flatten([i \in 1..Len(s) |-> EscapeChar(s[i])])

\* auth.replace(/%3A/i, ':'): the first escaped colon only
ReplaceFirstColon(s) ==
    IF \E i \in 1..(Len(s) - 2) : SubSeq(s, i, i + 2) = <<"%", "3", "A">>
    THEN LET i == CHOOSE i \in 1..(Len(s) - 2) :
                      /\ SubSeq(s, i, i + 2) = <<"%", "3", "A">>
                      /\ \A j \in 1..(i - 1) : SubSeq(s, j, j + 2) # <<"%", "3", "A">>
         IN  Take(s, i - 1) \o <<":">> \o Drop(s, i + 2)
    ELSE s

\* Url.prototype.parseHost: portPattern = /:[0-9]*$/
PortStart(host) ==
    IF \E i \in 1..Len(host) : host[i] = ":" /\ \A j \in (i + 1)..Len(host) : host[j] \in Digits
    THEN CHOOSE i \in 1..Len(host) :
             /\ host[i] = ":" /\ \A j \in (i + 1)..Len(host) : host[j] \in Digits
             /\ \A k \in 1..(i - 1) :
                    ~(host[k] = ":" /\ \A j \in (k + 1)..Len(host) : host[j] \in Digits)
    ELSE 0

\* url.parse, step 1: the protocol (protocolPattern) is split off
ParseProtocol(s) ==
    LET n == ProtoRun(s)
    IN  IF n >= 1 /\ Len(s) > n /\ s[n + 1] = ":"
        THEN [protocol |-> Take(s, n + 1), rest |-> Drop(s, n + 1)]
        ELSE [protocol |-> <<>>, rest |-> s]

\* url.parse, step 2: '//' after a protocol (or before user@host) denotes a host
ParseSlashes(u) ==
    LET slashes == (u.protocol # <<>> \/ AuthPattern(u.rest)) /\ StartsWith(u.rest, <<"/", "/">>)
    IN  [protocol |-> u.protocol, slashes |-> slashes,
         doHost |-> slashes \/ (u.protocol # <<>> /\ u.protocol \notin SlashedProtocol),
         rest |-> IF slashes THEN Drop(u.rest, 2) ELSE u.rest]

\* url.parse, step 3: the auth is what precedes the last '@' before the host ends
ParseAuth(u) ==
    LET he == FirstIdx(u.rest, HostEndingChars)
        at == LastIdx(u.rest, "@", IF he = 0 THEN Len(u.rest) ELSE he)
    IN  IF u.doHost /\ at > 0
        THEN [protocol |-> u.protocol, slashes |-> u.slashes, doHost |-> u.doHost,
              auth |-> DecodeURIComponent(Take(u.rest, at - 1)), rest |-> Drop(u.rest, at)]
        ELSE [protocol |-> u.protocol, slashes |-> u.slashes, doHost |-> u.doHost,
              auth |-> <<>>, rest |-> u.rest]

\* parseHost: the host with its port re-attached only when the port has digits
HostOf(hostRaw) ==
    LET ps == PortStart(hostRaw)
    IN  IF ps = 0 \/ ps = Len(hostRaw) THEN (IF ps = 0 THEN hostRaw ELSE Take(hostRaw, ps - 1))
        ELSE hostRaw

\* url.parse, step 4: the host runs up to the first non-host character
ParseHost(u) ==
    LET he == FirstIdx(u.rest, NonHostChars)
    IN  IF ~u.doHost
        THEN [protocol |-> u.protocol, slashes |-> u.slashes, auth |-> u.auth,
              host |-> <<>>, rest |-> u.rest]
        ELSE [protocol |-> u.protocol, slashes |-> u.slashes, auth |-> u.auth,
              host |-> HostOf(IF he = 0 THEN u.rest ELSE Take(u.rest, he - 1)),
              rest |-> IF he = 0 THEN <<>> ELSE Drop(u.rest, he - 1)]

\* url.parse, step 5: the hash is everything from the first '#'
ParseHash(u) ==
    LET hi == FirstIdx(u.rest, {"#"})
    IN  [protocol |-> u.protocol, slashes |-> u.slashes, auth |-> u.auth, host |-> u.host,
         hash |-> IF hi = 0 THEN <<>> ELSE Drop(u.rest, hi - 1),
         rest |-> IF hi = 0 THEN u.rest ELSE Take(u.rest, hi - 1)]

\* url.parse, step 6: the search is everything from the first '?'; what is left is the
\* pathname, '/' for a slashed protocol with a host and no path
ParseSearch(u) ==
    LET qm   == FirstIdx(u.rest, {"?"})
        path == IF qm = 0 THEN u.rest ELSE Take(u.rest, qm - 1)
    IN  [protocol |-> u.protocol, slashes |-> u.slashes, auth |-> u.auth, host |-> u.host,
         pathname |-> IF path = <<>> /\ u.protocol \in SlashedProtocol /\ u.host # <<>>
                      THEN <<"/">> ELSE path,
         search |-> IF qm = 0 THEN <<>> ELSE Drop(u.rest, qm - 1),
         hash |-> u.hash]

\* url.parse(s): the fields getUrl and url.format read
ParseUrl(s) == ParseSearch(ParseHash(ParseHost(ParseAuth(ParseSlashes(ParseProtocol(s))))))

\* pathname.replace(/[?#]/g, encodeURIComponent)
EscapePathname(p) ==
    Flatten([i \in 1..Len(p) |-> IF p[i] \in {"?", "#"} THEN EscapeChar(p[i]) ELSE <<p[i]>>])

\* search.replace('#', '%23'): the first '#' only
EscapeSearch(q) ==
    LET i == FirstIdx(q, {"#"})
    IN  IF i = 0 THEN q ELSE Take(q, i - 1) \o <<"%", "2", "3">> \o Drop(q, i)

\* url.format(u) of a parsed (and then edited) Url object
FormatUrl(u) ==
    LET auth     == IF u.auth # <<>>
                    THEN ReplaceFirstColon(EncodeURIComponent(u.auth)) \o <<"@">>
                    ELSE <<>>
        hasHost  == u.host # <<>>
        slashed  == u.slashes \/ ((u.protocol = <<>> \/ u.protocol \in SlashedProtocol) /\ hasHost)
        host     == IF slashed THEN <<"/", "/">> \o (IF hasHost THEN auth \o u.host ELSE <<>>)
                    ELSE IF hasHost THEN auth \o u.host ELSE <<>>
        pathname == IF slashed /\ u.pathname # <<>> /\ Head(u.pathname) # "/"
                    THEN <<"/">> \o u.pathname ELSE u.pathname
    IN  u.protocol \o host \o EscapePathname(pathname) \o EscapeSearch(u.search) \o u.hash

-----------------------------------------------------------------------------
(* Node's path.posix.resolve, as getUrl calls it (two arguments)           *)

\* process.cwd(): where path.resolve starts when no argument is absolute
Cwd == <<"/", "w">>

\* normalizeString(path, allowAboveRoot, '/', isPosixPathSeparator): the loop from
\* index i (0-based), with the loop's locals as parameters
RECURSIVE NormalizeString(_, _, _, _, _, _, _, _)
NormalizeString(path, allowAboveRoot, i, res, lastSegmentLength, lastSlash, dots, code) ==
    IF i > Len(path) THEN res
    ELSE IF i = Len(path) /\ code = "/" THEN res
    ELSE
      LET c == IF i < Len(path) THEN path[i + 1] ELSE "/"
          n == Len(res)
      IN
      IF c = "/" THEN
        IF lastSlash = i - 1 \/ dots = 1 THEN
          NormalizeString(path, allowAboveRoot, i + 1, res, lastSegmentLength, i, 0, c)
        ELSE IF dots = 2 THEN
          LET notDotDot == n < 2 \/ lastSegmentLength # 2 \/ res[n] # "." \/ res[n - 1] # "."
          IN
          IF notDotDot /\ n > 2 THEN
            LET k    == LastIdx(res, "/", n)
                res2 == IF k = 0 THEN <<>> ELSE Take(res, k - 1)
                lsl2 == IF k = 0 THEN 0 ELSE Len(res2) - LastIdx(res2, "/", Len(res2))
            IN  NormalizeString(path, allowAboveRoot, i + 1, res2, lsl2, i, 0, c)
          ELSE IF notDotDot /\ n # 0 THEN
            NormalizeString(path, allowAboveRoot, i + 1, <<>>, 0, i, 0, c)
          ELSE IF allowAboveRoot THEN
            NormalizeString(path, allowAboveRoot, i + 1,
                            IF n > 0 THEN res \o <<"/", ".", ".">> ELSE <<".", ".">>, 2, i, 0, c)
          ELSE
            NormalizeString(path, allowAboveRoot, i + 1, res, lastSegmentLength, i, 0, c)
        ELSE
          LET seg == SubSeq(path, lastSlash + 2, i)
          IN  NormalizeString(path, allowAboveRoot, i + 1,
                              IF n > 0 THEN res \o <<"/">> \o seg ELSE seg,
                              i - lastSlash - 1, i, 0, c)
      ELSE IF c = "." /\ dots # -1 THEN
        NormalizeString(path, allowAboveRoot, i + 1, res, lastSegmentLength, lastSlash, dots + 1, c)
      ELSE
        NormalizeString(path, allowAboveRoot, i + 1, res, lastSegmentLength, lastSlash, -1, c)

IsAbsolute(p) == Len(p) > 0 /\ Head(p) = "/"

\* path.resolve validates each argument it visits, right to left, and stops visiting
\* at the first absolute one: a null pathname it visits is a TypeError
ResolveThrows(from, to) == to = <<>> \/ (~IsAbsolute(to) /\ from = <<>>)

\* path.join(from, to), which an earlier getUrl used: the arguments are joined in
\* order and normalized, so an absolute `to` does not replace `from`
PosixJoin(from, to) ==
    LET joined == from \o <<"/">> \o to
        norm   == NormalizeString(joined, ~IsAbsolute(joined), 0, <<>>, 0, -1, 0, "")
        slash  == IF EndsWithCh(joined, "/") /\ norm # <<>> THEN <<"/">> ELSE <<>>
    IN  IF IsAbsolute(joined) THEN <<"/">> \o norm \o slash
        ELSE IF norm = <<>> THEN <<".">> ELSE norm \o slash

\* path.posix.resolve(from, to), for arguments on which it does not throw
PosixResolve(from, to) ==
    LET p1   == to \o <<"/">>
        p2   == IF IsAbsolute(to) THEN p1 ELSE from \o <<"/">> \o p1
        p3   == IF IsAbsolute(to) \/ IsAbsolute(from) THEN p2 ELSE Cwd \o <<"/">> \o p2
        abs  == IsAbsolute(p3)
        norm == NormalizeString(p3, ~abs, 0, <<>>, 0, -1, 0, "")
    IN  IF abs THEN <<"/">> \o norm
        ELSE IF norm = <<>> THEN <<".">> ELSE norm

-----------------------------------------------------------------------------
(* Util.ts                                                                 *)

\* a || b on string-typed fields
Or(a, b) == IF a # <<>> THEN a ELSE b

\* querystring.stringify(params, sep, eq): the loop over the keys from index i
RECURSIVE Stringify(_, _, _, _, _)
Stringify(params, sep, eq, i, fields) ==
    IF i > Len(params) THEN fields
    ELSE LET ks == EncodeURIComponent(params[i][1]) \o eq
             f  == fields \o ks \o EncodeURIComponent(params[i][2])
         IN  Stringify(params, sep, eq, i + 1, IF i < Len(params) THEN f \o sep ELSE f)

\* the composer without the strip: a dangling '?' is kept
KeepTrailingQuestion(u) == u

\* requestUrl.replace(/\?$/g, '')
StripTrailingQuestion(u) == IF EndsWithCh(u, "?") THEN Take(u, Len(u) - 1) ELSE u

prepareUrlWithQueryParams(u, qp) ==
    StripTrailingQuestion(u) \o <<"?">>
        \o Stringify(qp.params, Or(qp.sep, <<"&">>), Or(qp.eq, <<"=">>), 1, <<>>)

\* the merge with the base's query and fragment handed down as well
MergeInheritingQuery(res, base) ==
    LET b == ParseUrl(base)
        r == ParseUrl(res)
        m == [r EXCEPT !.protocol = Or(r.protocol, b.protocol),
                       !.auth = Or(r.auth, b.auth),
                       !.host = Or(r.host, b.host),
                       !.search = Or(r.search, b.search),
                       !.hash = Or(r.hash, b.hash)]
    IN  IF ResolveThrows(b.pathname, r.pathname) THEN [threw |-> TRUE, url |-> <<>>]
        ELSE LET p  == PosixResolve(b.pathname, r.pathname)
                 p2 == IF ~EndsWithCh(p, "/") /\ EndsWithCh(res, "/") THEN p \o <<"/">> ELSE p
             IN  [threw |-> FALSE, url |-> FormatUrl([m EXCEPT !.pathname = p2])]

\* lines 27-41 of getUrl: both arguments non-empty
MergeUrls(res, base) ==
    LET b == ParseUrl(base)
        r == ParseUrl(res)
        m == [r EXCEPT !.protocol = Or(r.protocol, b.protocol),
                       !.auth = Or(r.auth, b.auth),
                       !.host = Or(r.host, b.host)]
    IN  IF ResolveThrows(b.pathname, r.pathname) THEN [threw |-> TRUE, url |-> <<>>]
        ELSE LET p  == PosixResolve(b.pathname, r.pathname)
                 p2 == IF ~EndsWithCh(p, "/") /\ EndsWithCh(res, "/") THEN p \o <<"/">> ELSE p
             IN  [threw |-> FALSE, url |-> FormatUrl([m EXCEPT !.pathname = p2])]

\* getUrl as it was before the `!resource` branch existed: an empty resource is
\* parsed and merged like any other
ResolveWithoutEmptyResource(res, base) ==
    IF base = <<>> THEN [threw |-> FALSE, url |-> res]
    ELSE MergeUrls(res, base)

\* lines 20-42 of getUrl: the local requestUrl
ResolveRequestUrl(res, base) ==
    IF base = <<>> THEN [threw |-> FALSE, url |-> res]
    ELSE IF res = <<>> THEN [threw |-> FALSE, url |-> base]
    ELSE MergeUrls(res, base)

\* getUrl(resource, baseUrl, options)
getUrl(res, base, qp) ==
    LET r == ResolveRequestUrl(res, base)
    IN  IF r.threw THEN r
        ELSE IF qp.given THEN [threw |-> FALSE, url |-> prepareUrlWithQueryParams(r.url, qp)]
        ELSE r

-----------------------------------------------------------------------------
(* The calls of getUrl that are checked                                    *)

MaxParams == 2

ResourcePaths ==
    { <<>>, <<"/">>, <<"a">>, <<"/", "a">>, <<"a", "/">>, <<"/", "a", "/">>,
      <<"a", "/", "b">>, <<".", ".">>, <<".", ".", "/", "a">>, <<".", "/", "a">>,
      <<"/", "a", "/", ".", ".", "/", "b">>, <<"a", "/", ".", ".", "/", ".", ".", "/", "c", "/">>,
      <<"a", "/", "/", "b">>, <<"/", ".", ".">> }

ResourceAuthorities == { <<"n">>, <<"u", "@", "n">>, <<"n", ":", "8">> }

ResourceUrlPaths == { <<>>, <<"/", "a", "/">>, <<"/", ".", "/", "a", "/", ".", ".">> }

\* a relative or rooted path, or a fully qualified URL; '' is the absent resource
Resources ==
    { p \o q : p \in ResourcePaths, q \in {<<>>, <<"?", "q", "/">>} }
    \cup { <<"?">>, <<"?", "q">>, <<"a", "?">>, <<"a", "?", "q">>, <<"a", "?", "?">>,
           <<"#", "f">>, <<"a", "#", "f">>, <<"a", "?", "q", "#", "f">> }
    \cup { s \o <<"/", "/">> \o a \o p :
             s \in {HTTP, HTTPS}, a \in ResourceAuthorities, p \in ResourceUrlPaths }
    \cup { HTTP \o <<"/", "/", "n", "?", "q">>,
           HTTPS \o <<"/", "/", "u", "@", "n", "/", "a", "/", "?", "q">> }

BaseAuthorities == { <<"m">>, <<"v", ":", "p", "@", "m">>, <<"m", ":", "8", "0">> }

BasePaths == { <<>>, <<"/", "b">>, <<"/", "b", "/">>, <<"/", "b", "/", "c", "/", ".", ".">> }

\* the client's base URL; '' is the absent one
Bases ==
    { <<>>, <<"/", "b">>, <<"b">>,
      HTTP \o <<"/", "/", "m", "/", "b", "?", "k", "#", "g">>,
      HTTPS \o <<"/", "/", "m">>, HTTPS \o <<"/", "/", "m", "/", "b", "/">> }
    \cup { HTTP \o <<"/", "/">> \o a \o p : a \in BaseAuthorities, p \in BasePaths }

ParamKeys == {<<"k">>, <<"j">>, <<"x", "=">>}

ParamValues == {<<"a", " ", "b">>, <<>>}

\* the insertion-ordered params object: distinct keys
ParamLists ==
    { ps \in UNION { [1..n -> ParamKeys \X ParamValues] : n \in 0..MaxParams } :
        \A i, j \in 1..Len(ps) : i # j => ps[i][1] # ps[j][1] }

NoQueryParameters == [given |-> FALSE, params |-> <<>>, sep |-> <<>>, eq |-> <<>>]

QueryParameterOptions ==
    {NoQueryParameters}
    \cup { [given |-> TRUE, params |-> ps, sep |-> se[1], eq |-> se[2]] :
             ps \in ParamLists, se \in { <<<<>>, <<>>>>, <<<<";">>, <<":">>>> } }

GetUrlCall ==
    /\ upc = "call"
    /\ resource \in Resources
    /\ baseUrl \in Bases
    /\ queryParameters \in QueryParameterOptions
    /\ requestUrl = <<>>
    /\ returned = <<>>
    /\ threw = FALSE

\* one call of getUrl(resource, baseUrl, {queryParameters})
GetUrl ==
    /\ upc = "call"
    /\ LET r == ResolveRequestUrl(resource, baseUrl)
           g == getUrl(resource, baseUrl, queryParameters)
       IN  /\ requestUrl' = r.url
           /\ returned' = g.url
           /\ threw' = g.threw
    /\ upc' = "done"
    /\ UNCHANGED <<resource, baseUrl, queryParameters>>

-----------------------------------------------------------------------------
(* JSON values and JSON.parse, over already-lexed bodies                   *)

\* HttpCodes.NotFound
NotFound == 404

\* the largest status _processResponse resolves for
MaxSuccess == 299

Undefined == [t |-> "undefined", prim |-> "", fields |-> <<>>]

Null == [t |-> "null", prim |-> "", fields |-> <<>>]

StringTokens == {"\"X\"", "\"\"", "\"message\"", "\"id\""}

NumberTokens == {"0", "7"}

StringContent(tok) ==
    CASE tok = "\"X\"" -> "X"
      [] tok = "\"\"" -> ""
      [] tok = "\"message\"" -> "message"
      [] tok = "\"id\"" -> "id"

IsPrimitiveToken(tok) == tok \in StringTokens \cup NumberTokens \cup {"null", "true", "false"}

PrimitiveValue(tok) ==
    IF tok \in StringTokens THEN [t |-> "string", prim |-> StringContent(tok), fields |-> <<>>]
    ELSE IF tok \in NumberTokens THEN [t |-> "number", prim |-> tok, fields |-> <<>>]
    ELSE IF tok = "null" THEN Null
    ELSE [t |-> "boolean", prim |-> tok, fields |-> <<>>]

SyntaxError == [ok |-> FALSE, value |-> Undefined]

\* the members of an object literal: key ':' value (',' key ':' value)*; a key that
\* comes again replaces the earlier one
RECURSIVE ParseMembers(_, _)
ParseMembers(ts, fields) ==
    IF Len(ts) >= 3 /\ ts[1] \in StringTokens /\ ts[2] = ":" /\ IsPrimitiveToken(ts[3])
    THEN LET key  == StringContent(ts[1])
             kept == SelectSeq(fields, LAMBDA f : f[1] # key)
             now  == Append(kept, <<key, PrimitiveValue(ts[3])>>)
         IN  IF Len(ts) = 3 THEN [ok |-> TRUE, value |-> [t |-> "object", prim |-> "", fields |-> now]]
             ELSE IF Len(ts) > 4 /\ ts[4] = "," THEN ParseMembers(Drop(ts, 4), now)
             ELSE SyntaxError
    ELSE SyntaxError

\* JSON.parse(contents): a primitive, or an object of primitives; anything else
\* throws a SyntaxError
JsonParse(ts) ==
    IF Len(ts) = 1 THEN
        IF IsPrimitiveToken(ts[1]) THEN [ok |-> TRUE, value |-> PrimitiveValue(ts[1])]
        ELSE SyntaxError
    ELSE IF Len(ts) >= 2 /\ ts[1] = "{" /\ ts[Len(ts)] = "}" THEN
        IF Len(ts) = 2 THEN [ok |-> TRUE, value |-> [t |-> "object", prim |-> "", fields |-> <<>>]]
        ELSE ParseMembers(SubSeq(ts, 2, Len(ts) - 1), <<>>)
    ELSE SyntaxError

\* JavaScript truthiness of a value
Truthy(v) ==
    \/ v.t \in {"object", "processed"}
    \/ v.t = "string" /\ v.prim # ""
    \/ v.t = "number" /\ v.prim # "0"
    \/ v.t = "boolean" /\ v.prim = "true"

\* v[key]: undefined on a primitive and for a key the object lacks
GetField(v, key) ==
    IF v.t = "object" /\ \E i \in 1..Len(v.fields) : v.fields[i][1] = key
    THEN LET i == CHOOSE i \in 1..Len(v.fields) : v.fields[i][1] = key IN v.fields[i][2]
    ELSE Undefined

\* String(v) of a primitive, as new Error(v) takes its message
StringOf(v) == IF v.t = "null" THEN "null" ELSE IF v.t = "undefined" THEN "undefined" ELSE v.prim

DigitText == <<"0", "1", "2", "3", "4", "5", "6", "7", "8", "9">>

\* a three-digit status code in a template string
CodeText(n) == DigitText[(n \div 100) + 1] \o DigitText[((n \div 10) % 10) + 1] \o DigitText[(n % 10) + 1]

-----------------------------------------------------------------------------
(* RestClient.ts                                                           *)

Verbs == {"options", "get", "del", "create", "update", "replace", "uploadStream"}

\* statuses a response may carry, around the code's comparisons
StatusCodes == {200, 299, 300, 401, 404, 500}

\* bodies readBody may yield
Bodies ==
    { <<>>,
      <<"<html>">>,
      <<"{", "\"message\"", ":", "\"X\"">>,
      <<"{", "}">>,
      <<"{", "\"message\"", ":", "\"X\"", "}">>,
      <<"{", "\"message\"", ":", "\"\"", "}">>,
      <<"{", "\"message\"", ":", "7", "}">>,
      <<"{", "\"id\"", ":", "7", ",", "\"message\"", ":", "\"X\"", "}">>,
      <<"{", "\"id\"", ":", "7", "}">>,
      <<"null">>, <<"0">>, <<"\"X\"">> }

\* the caller's responseProcessor: none, one that returns a new value made from the
\* parsed body, one that returns null, one that throws
Processors == {"none", "wrap", "toNull", "throws"}

ApplyProcessor(proc, obj) ==
    IF proc = "wrap" THEN [t |-> "processed", prim |-> obj.t, fields |-> obj.fields]
    ELSE Null

NoError == [message |-> "", statusCode |-> 0, hasResult |-> FALSE, result |-> Undefined]

\* lines 195-209: the local obj after the try block
ParsedBody(r) ==
    IF r.readFails \/ r.contents = <<>> THEN Undefined
    ELSE IF JsonParse(r.contents).ok THEN JsonParse(r.contents).value
    ELSE Undefined

\* the responseProcessor is ignored: the parsed body is always the result
ResultIgnoringProcessor(r, opts, old) ==
    IF r.readFails \/ r.contents = <<>> \/ ~JsonParse(r.contents).ok THEN old
    ELSE JsonParse(r.contents).value

\* a body that does not parse leaves null as the result
ResultNullOnParseFailure(r, opts, old) ==
    IF r.readFails \/ r.contents = <<>> THEN old
    ELSE IF ~JsonParse(r.contents).ok THEN Null
    ELSE IF opts.responseProcessor = "none" THEN JsonParse(r.contents).value
    ELSE IF opts.responseProcessor = "throws" THEN old
    ELSE ApplyProcessor(opts.responseProcessor, JsonParse(r.contents).value)

\* lines 195-209: rres.result after the try block (old when nothing was assigned)
ResultAfterBody(r, opts, old) ==
    IF r.readFails \/ r.contents = <<>> \/ ~JsonParse(r.contents).ok THEN old
    ELSE IF opts.responseProcessor = "none" THEN JsonParse(r.contents).value
    ELSE IF opts.responseProcessor = "throws" THEN old
    ELSE ApplyProcessor(opts.responseProcessor, JsonParse(r.contents).value)

\* the message is taken from the body whenever the parsed body is truthy, without
\* looking at the field
MessageWithoutFieldCheck(obj, statusCode) ==
    IF Truthy(obj) THEN StringOf(GetField(obj, "message"))
    ELSE "Failed request: (" \o CodeText(statusCode) \o ")"

\* lines 213-222: the message of the Error
ErrorMessage(obj, statusCode) ==
    IF Truthy(obj) /\ Truthy(GetField(obj, "message"))
    THEN StringOf(GetField(obj, "message"))
    ELSE "Failed request: (" \o CodeText(statusCode) \o ")"

\* the Error carries the parsed body whenever there is one
ErrorWithParsedBody(obj, statusCode, result) ==
    [message |-> ErrorMessage(obj, statusCode), statusCode |-> statusCode,
     hasResult |-> obj # Undefined, result |-> obj]

\* lines 222-228: the Error that is rejected with
MakeError(obj, statusCode, result) ==
    [message |-> ErrorMessage(obj, statusCode), statusCode |-> statusCode,
     hasResult |-> Truthy(result), result |-> IF Truthy(result) THEN result ELSE Undefined]

RestIdle ==
    /\ verb = "none"
    /\ options = [responseProcessor |-> "none"]
    /\ response = [statusCode |-> 0, readFails |-> FALSE, contents |-> <<>>]
    /\ ppc = "idle"
    /\ rres = [statusCode |-> 0, result |-> Undefined]
    /\ promise = "pending"
    /\ err = NoError
    /\ resolveCalls = 0
    /\ rejectCalls = 0
    /\ caller = [state |-> "waiting", statusCode |-> 0, result |-> Undefined]

\* a caller invokes one verb with its options
VerbCall ==
    /\ verb \in Verbs
    /\ options \in [responseProcessor : Processors]
    /\ response = [statusCode |-> 0, readFails |-> FALSE, contents |-> <<>>]
    /\ ppc = "request"
    /\ rres = [statusCode |-> 0, result |-> Undefined]
    /\ promise = "pending"
    /\ err = NoError
    /\ resolveCalls = 0
    /\ rejectCalls = 0
    /\ caller = [state |-> "waiting", statusCode |-> 0, result |-> Undefined]

\* lines 57-167: `await this.client.<verb>(...)` yields the response, and the verb
\* calls _processResponse(res, options)
ClientResponds ==
    /\ ppc = "request"
    /\ \E sc \in StatusCodes, fails \in BOOLEAN, body \in Bodies :
           /\ fails => body = <<>>
           /\ response' = [statusCode |-> sc, readFails |-> fails, contents |-> body]
    /\ ppc' = "start"
    /\ UNCHANGED <<verb, options, rres, promise, err, resolveCalls, rejectCalls, caller>>

\* lines 182-196: the executor up to `await res.readBody()`; a 404 resolves and goes on
ProcessStart ==
    /\ ppc = "start"
    /\ rres' = [statusCode |-> response.statusCode, result |-> Undefined]
    /\ IF response.statusCode = NotFound
       THEN /\ promise' = "fulfilled"
            /\ resolveCalls' = resolveCalls + 1
       ELSE UNCHANGED <<promise, resolveCalls>>
    /\ ppc' = "readBody"
    /\ UNCHANGED <<verb, options, response, err, rejectCalls, caller>>

\* lines 196-233: the executor after the await; resolve and reject settle a pending
\* promise and do nothing to a settled one
ProcessBody ==
    /\ ppc = "readBody"
    /\ LET obj    == ParsedBody(response)
           result == ResultAfterBody(response, options, rres.result)
       IN  /\ rres' = [rres EXCEPT !.result = result]
           /\ IF rres.statusCode > MaxSuccess
              THEN /\ rejectCalls' = rejectCalls + 1
                   /\ IF promise = "pending"
                      THEN promise' = "rejected" /\ err' = MakeError(obj, rres.statusCode, result)
                      ELSE UNCHANGED <<promise, err>>
                   /\ UNCHANGED resolveCalls
              ELSE /\ resolveCalls' = resolveCalls + 1
                   /\ promise' = IF promise = "pending" THEN "fulfilled" ELSE promise
                   /\ UNCHANGED <<err, rejectCalls>>
    /\ ppc' = "end"
    /\ UNCHANGED <<verb, options, response, caller>>

\* the caller's `await` continues once the promise is settled: it holds the rres
\* object itself when the promise was fulfilled, the Error when it was rejected
CallerResumes ==
    /\ caller.state = "waiting"
    /\ promise # "pending"
    /\ caller' = IF promise = "fulfilled"
                 THEN [state |-> "resolved", statusCode |-> rres.statusCode, result |-> rres.result]
                 ELSE [state |-> "rejected", statusCode |-> err.statusCode, result |-> err.result]
    /\ UNCHANGED <<verb, options, response, ppc, rres, promise, err, resolveCalls, rejectCalls>>

\* what the options of a verb call may carry as query parameters
VerbQueryParameters ==
    { NoQueryParameters,
      [given |-> TRUE, params |-> <<>>, sep |-> <<>>, eq |-> <<>>],
      [given |-> TRUE, params |-> << <<<<"k">>, <<"a", " ", "b">>>> >>, sep |-> <<>>, eq |-> <<>>] }

\* a caller invokes one verb on a client constructed with baseUrl, with a resource and
\* with options
VerbUrlCall ==
    /\ verb \in Verbs
    /\ upc = "call"
    /\ resource \in Resources
    /\ baseUrl \in Bases
    /\ queryParameters \in VerbQueryParameters
    /\ requestUrl = <<>>
    /\ returned = <<>>
    /\ threw = FALSE

\* lines 60, 75, 90, 107, 127, 147, 161: `Util.getUrl(resource, this._baseUrl)`, the
\* same in every verb; the options are not passed on
VerbResolvesUrl ==
    /\ upc = "call"
    /\ verb \in Verbs
    /\ LET g == getUrl(resource, baseUrl, NoQueryParameters)
       IN  /\ requestUrl' = g.url
           /\ returned' = g.url
           /\ threw' = g.threw
    /\ upc' = "done"
    /\ UNCHANGED <<resource, baseUrl, queryParameters>>

-----------------------------------------------------------------------------
(* RestClient._headersFromOptions                                          *)

MaxCalls == 2

\* create, update, replace and uploadStream pass contentType = true
BodyBearing == {"create", "update", "replace", "uploadStream"}

EmptyHeaders == [Accept |-> "", ContentType |-> "", XCustom |-> ""]

\* lines 169-179: the headers object _headersFromOptions returns; with
\* options.additionalHeaders given it is that very object, written to in place
HeadersFromOptions(o, obj, contentType) ==
    LET base == IF o.passed /\ o.hasAdditionalHeaders THEN obj ELSE EmptyHeaders
        h1   == [base EXCEPT !.Accept = IF o.passed /\ o.acceptHeader # ""
                                        THEN o.acceptHeader ELSE "application/json"]
    IN  IF contentType
        THEN [h1 EXCEPT !.ContentType = IF h1.ContentType # "" THEN h1.ContentType
                                        ELSE "application/json; charset=utf-8"]
        ELSE h1

\* the options objects a caller may write
CallerOptions ==
    { [passed |-> FALSE, acceptHeader |-> "", hasAdditionalHeaders |-> FALSE] }
    \cup [passed : {TRUE}, acceptHeader : {"", "application/xml"},
          hasAdditionalHeaders : BOOLEAN]

CallerHeaders == [Accept : {"", "text/xml"}, ContentType : {"", "text/plain"}, XCustom : {"", "1"}]

HeadersIdle ==
    /\ sharedOptions = [passed |-> FALSE, acceptHeader |-> "", hasAdditionalHeaders |-> FALSE]
    /\ additionalHeaders = EmptyHeaders
    /\ asWritten = EmptyHeaders
    /\ sent = <<>>

\* a caller writes one options object and is about to make verb calls with it
OptionsWritten ==
    /\ sharedOptions \in CallerOptions
    /\ additionalHeaders \in CallerHeaders
    /\ ~sharedOptions.hasAdditionalHeaders => additionalHeaders = EmptyHeaders
    /\ asWritten = additionalHeaders
    /\ sent = <<>>

\* lines 57-167: a verb is called with the options object; up to its `await` it builds
\* the headers and hands them to this.client
VerbBuildsHeaders ==
    /\ Len(sent) < MaxCalls
    /\ \E v \in Verbs :
         LET h == HeadersFromOptions(sharedOptions, additionalHeaders, v \in BodyBearing)
         IN  /\ sent' = Append(sent, [verb |-> v, headers |-> h])
             /\ additionalHeaders' = IF sharedOptions.passed /\ sharedOptions.hasAdditionalHeaders
                                     THEN h ELSE additionalHeaders
    /\ UNCHANGED <<sharedOptions, asWritten>>

-----------------------------------------------------------------------------
(* The request dispatcher and the credential handlers                      *)

MaxHandlers == 2

HandlerKinds == {"Basic", "Bearer", "PAT", "NTLM"}

HandlerLists == UNION { [1..n -> HandlerKinds] : n \in 0..MaxHandlers }

Hosts == {"microsoft.com", "example.org"}

PresignedPatterns == {"microsoft", "example"}

\* pattern.test(url): the pattern occurs in the URL
Matches(host, pattern) ==
    \/ host = "microsoft.com" /\ pattern = "microsoft"
    \/ host = "example.org" /\ pattern = "example"

\* the bypass rule is not consulted
NeverPresigned(host, pats) == FALSE

\* the presigned-bypass rule: the target URL matches one of the configured patterns
IsPresigned(host, pats) == \E pt \in pats : Matches(host, pt)

NoHeaders == [Authorization |-> "", FedAuthRedirect |-> "", Connection |-> ""]

\* handler.prepareRequest(options): the headers afterwards
\* (the Bearer test matches X-TFS-FedAuthRedirect: Suppress as well as Authorization)
PrepareHeaders(kind, h) ==
    CASE kind = "Basic"  -> [h EXCEPT !.Authorization = "Basic user:pass"]
      [] kind = "Bearer" -> [h EXCEPT !.Authorization = "Bearer token",
                                      !.FedAuthRedirect = "Suppress"]
      [] kind = "PAT"    -> [h EXCEPT !.Authorization = "Basic PAT:secret",
                                      !.FedAuthRedirect = "Suppress"]
      [] kind = "NTLM"   -> h

\* responses of the server to a request
ServerResponses ==
    { [statusCode |-> 200, www |-> ""], [statusCode |-> 200, www |-> "NTLM"],
      [statusCode |-> 401, www |-> ""], [statusCode |-> 401, www |-> "Basic"],
      [statusCode |-> 401, www |-> "NTLM"], [statusCode |-> 500, www |-> ""] }

\* the server's Type-2 challenge
Type2Challenge == [statusCode |-> 401, www |-> "NTLM <type2>"]

NoResponse == [statusCode |-> 0, www |-> ""]

BeginsWithNTLM(www) == www \in {"NTLM", "NTLM <type2>"}

\* handler.canHandleAuthentication(response)
CanHandleAuthentication(kind, r) ==
    kind = "NTLM" /\ r.statusCode = 401 /\ BeginsWithNTLM(r.www)

Claims(hs, r) == { i \in 1..Len(hs) : CanHandleAuthentication(hs[i], r) }

\* the last handler that claims the challenge
LastClaiming(hs, r) == CHOOSE i \in Claims(hs, r) : \A j \in Claims(hs, r) : j <= i

\* the handler that answers a challenge: the first, in registration order, that claims it
FirstClaiming(hs, r) == CHOOSE i \in Claims(hs, r) : \A j \in Claims(hs, r) : i <= j

\* the Type-3 message is sent whatever became of the connection
Type3OnLostConnection(c, challenged) == challenged

\* the Type-3 message needs the server's nonce and the connection the Type-1 went over
MaySendType3(c, challenged) == c.open /\ challenged

DispatchIdle ==
    /\ handlers = <<>>
    /\ patterns = {}
    /\ target = "example.org"
    /\ dpc = "idle"
    /\ prepared = <<>>
    /\ headers = NoHeaders
    /\ wire = <<>>
    /\ first = NoResponse
    /\ type2 = FALSE
    /\ conn = [open |-> FALSE]
    /\ interruptedAt = -1
    /\ authCalls = <<>>
    /\ handled = NoResponse
    /\ final = [kind |-> "none", statusCode |-> 0, www |-> ""]

\* a client is constructed with its handlers and one request is dispatched
DispatchCall ==
    /\ handlers \in HandlerLists
    /\ patterns \in SUBSET PresignedPatterns
    /\ target \in Hosts
    /\ dpc = "prepare"
    /\ prepared = <<>>
    /\ headers = NoHeaders
    /\ wire = <<>>
    /\ first = NoResponse
    /\ type2 = FALSE
    /\ conn = [open |-> FALSE]
    /\ interruptedAt = -1
    /\ authCalls = <<>>
    /\ handled = NoResponse
    /\ final = [kind |-> "none", statusCode |-> 0, www |-> ""]

\* prepareRequest of the next handler, unless the URL is presigned
PrepareRequest ==
    /\ dpc = "prepare"
    /\ ~IsPresigned(target, patterns)
    /\ Len(prepared) < Len(handlers)
    /\ LET i == Len(prepared) + 1
       IN  /\ headers' = PrepareHeaders(handlers[i], headers)
           /\ prepared' = Append(prepared, i)
    /\ UNCHANGED <<handlers, patterns, target, dpc, wire, first, type2, conn, interruptedAt,
                   authCalls, handled, final>>

\* the request is sent, once every handler was given it (or none, when presigned)
SendRequest ==
    /\ dpc = "prepare"
    /\ IsPresigned(target, patterns) \/ Len(prepared) = Len(handlers)
    /\ wire' = Append(wire, [kind |-> "request", conn |-> 0, headers |-> headers])
    /\ dpc' = "await"
    /\ UNCHANGED <<handlers, patterns, target, prepared, headers, first, type2, conn,
                   interruptedAt, authCalls, handled, final>>

\* the response arrives: a 401 some handler claims goes to the first such handler's
\* handleAuthentication, anything else is returned as it is
ReceiveResponse ==
    /\ dpc = "await"
    /\ \E r \in ServerResponses :
           /\ first' = r
           /\ IF r.statusCode = 401 /\ Claims(handlers, r) # {}
              THEN /\ authCalls' = Append(authCalls, FirstClaiming(handlers, r))
                   /\ dpc' = "type1"
                   /\ UNCHANGED final
              ELSE /\ final' = [kind |-> "response", statusCode |-> r.statusCode, www |-> r.www]
                   /\ dpc' = "done"
                   /\ UNCHANGED authCalls
    /\ UNCHANGED <<handlers, patterns, target, prepared, headers, wire, type2, conn,
                   interruptedAt, handled>>

\* NTLM handleAuthentication, message 1: the Type-1 negotiation on a persistent connection
NtlmSendType1 ==
    /\ dpc = "type1"
    /\ conn' = [open |-> TRUE]
    /\ wire' = Append(wire, [kind |-> "type1", conn |-> 1,
                             headers |-> [headers EXCEPT !.Authorization = "NTLM <type1>",
                                                         !.Connection = "keep-alive"]])
    /\ dpc' = "awaitType2"
    /\ UNCHANGED <<handlers, patterns, target, prepared, headers, first, type2, interruptedAt,
                   authCalls, handled, final>>

\* message 2: the server's reply to the Type-1; without a Type-2 challenge in it the
\* handshake is broken
NtlmReceiveType2 ==
    /\ dpc = "awaitType2"
    /\ conn.open
    /\ \E r \in ServerResponses \cup {Type2Challenge} :
           IF r = Type2Challenge
           THEN type2' = TRUE /\ dpc' = "type3" /\ UNCHANGED final
           ELSE /\ dpc' = "error"
                /\ final' = [kind |-> "error", statusCode |-> 0, www |-> ""]
                /\ UNCHANGED type2
    /\ UNCHANGED <<handlers, patterns, target, prepared, headers, wire, first, conn,
                   interruptedAt, authCalls, handled>>

\* message 3: the Type-3 response on the same connection, which is then to be closed
NtlmSendType3 ==
    /\ dpc = "type3"
    /\ MaySendType3(conn, type2)
    /\ wire' = Append(wire, [kind |-> "type3", conn |-> 1,
                             headers |-> [headers EXCEPT !.Authorization = "NTLM <type3>",
                                                         !.Connection = "Close"]])
    /\ dpc' = "awaitFinal"
    /\ UNCHANGED <<handlers, patterns, target, prepared, headers, first, type2, conn,
                   interruptedAt, authCalls, handled, final>>

\* the reply to the Type-3 is the handler's response; the connection is closed
NtlmReceiveFinal ==
    /\ dpc = "awaitFinal"
    /\ conn.open
    /\ \E r \in ServerResponses : handled' = r
    /\ conn' = [open |-> FALSE]
    /\ dpc' = "handled"
    /\ UNCHANGED <<handlers, patterns, target, prepared, headers, wire, first, type2,
                   interruptedAt, authCalls, final>>

\* the handler's response is the dispatcher's final response, whatever its status
FinalCallback ==
    /\ dpc = "handled"
    /\ final' = [kind |-> "response", statusCode |-> handled.statusCode, www |-> handled.www]
    /\ dpc' = "done"
    /\ UNCHANGED <<handlers, patterns, target, prepared, headers, wire, first, type2, conn,
                   interruptedAt, authCalls, handled>>

\* the transport loses the handshake's connection
ConnectionInterrupted ==
    /\ dpc \in {"awaitType2", "type3", "awaitFinal"}
    /\ conn.open
    /\ conn' = [open |-> FALSE]
    /\ interruptedAt' = Len(wire)
    /\ UNCHANGED <<handlers, patterns, target, dpc, prepared, headers, wire, first, type2,
                   authCalls, handled, final>>

\* a broken handshake is an error of the request; nothing is sent again
HandshakeFails ==
    /\ dpc \in {"awaitType2", "type3", "awaitFinal"}
    /\ ~conn.open
    /\ dpc' = "error"
    /\ final' = [kind |-> "error", statusCode |-> 0, www |-> ""]
    /\ UNCHANGED <<handlers, patterns, target, prepared, headers, wire, first, type2, conn,
                   interruptedAt, authCalls, handled>>

-----------------------------------------------------------------------------
(* Specifications                                                          *)

vars == <<urlVars, restVars, dispVars, headVars>>

UrlIdle ==
    /\ upc = "idle"
    /\ resource = <<>>
    /\ baseUrl = <<>>
    /\ queryParameters = NoQueryParameters
    /\ requestUrl = <<>>
    /\ returned = <<>>
    /\ threw = FALSE

\* calls of getUrl
InitUrl == GetUrlCall /\ RestIdle /\ DispatchIdle /\ HeadersIdle

NextUrl == GetUrl /\ UNCHANGED <<restVars, dispVars, headVars>>

SpecUrl == InitUrl /\ [][NextUrl]_vars

\* one verb call of a RestClient
InitRest == UrlIdle /\ VerbCall /\ DispatchIdle /\ HeadersIdle

NextRest ==
    \/ ClientResponds /\ UNCHANGED <<urlVars, dispVars, headVars>>
    \/ ProcessStart /\ UNCHANGED <<urlVars, dispVars, headVars>>
    \/ ProcessBody /\ UNCHANGED <<urlVars, dispVars, headVars>>
    \/ CallerResumes /\ UNCHANGED <<urlVars, dispVars, headVars>>

SpecRest == InitRest /\ [][NextRest]_vars

\* the URL of one verb call
InitVerbUrl ==
    /\ VerbUrlCall
    /\ options = [responseProcessor |-> "none"]
    /\ response = [statusCode |-> 0, readFails |-> FALSE, contents |-> <<>>]
    /\ ppc = "idle"
    /\ rres = [statusCode |-> 0, result |-> Undefined]
    /\ promise = "pending"
    /\ err = NoError
    /\ resolveCalls = 0
    /\ rejectCalls = 0
    /\ caller = [state |-> "waiting", statusCode |-> 0, result |-> Undefined]
    /\ DispatchIdle
    /\ HeadersIdle

NextVerbUrl == VerbResolvesUrl /\ UNCHANGED <<restVars, dispVars, headVars>>

SpecVerbUrl == InitVerbUrl /\ [][NextVerbUrl]_vars

\* one request through the dispatcher
InitDispatch == UrlIdle /\ RestIdle /\ DispatchCall /\ HeadersIdle

NextDispatch ==
    \/ PrepareRequest /\ UNCHANGED <<urlVars, restVars, headVars>>
    \/ SendRequest /\ UNCHANGED <<urlVars, restVars, headVars>>
    \/ ReceiveResponse /\ UNCHANGED <<urlVars, restVars, headVars>>
    \/ NtlmSendType1 /\ UNCHANGED <<urlVars, restVars, headVars>>
    \/ NtlmReceiveType2 /\ UNCHANGED <<urlVars, restVars, headVars>>
    \/ NtlmSendType3 /\ UNCHANGED <<urlVars, restVars, headVars>>
    \/ NtlmReceiveFinal /\ UNCHANGED <<urlVars, restVars, headVars>>
    \/ FinalCallback /\ UNCHANGED <<urlVars, restVars, headVars>>
    \/ ConnectionInterrupted /\ UNCHANGED <<urlVars, restVars, headVars>>
    \/ HandshakeFails /\ UNCHANGED <<urlVars, restVars, headVars>>

SpecDispatch == InitDispatch /\ [][NextDispatch]_vars

\* the verb calls made with one options object
InitHeaders == UrlIdle /\ RestIdle /\ DispatchIdle /\ OptionsWritten

NextHeaders == VerbBuildsHeaders /\ UNCHANGED <<urlVars, restVars, dispVars>>

SpecHeaders == InitHeaders /\ [][NextHeaders]_vars

-----------------------------------------------------------------------------
(* Claims about getUrl                                                     *)

BothGiven == upc = "done" /\ resource # <<>> /\ baseUrl # <<>>

\* the '/'-separated segments of a path, from position i on, cur being the segment
\* under construction
RECURSIVE Segments(_, _, _)
Segments(path, i, cur) ==
    IF i > Len(path) THEN <<cur>>
    ELSE IF path[i] = "/" THEN <<cur>> \o Segments(path, i + 1, <<>>)
    ELSE Segments(path, i + 1, Append(cur, path[i]))

\* the directory stack after walking the segments: '' and '.' stay, '..' goes up
RECURSIVE Walk(_, _)
Walk(segs, stack) ==
    IF segs = <<>> THEN stack
    ELSE LET g == Head(segs)
         IN  IF g = <<>> \/ g = <<".">> THEN Walk(Tail(segs), stack)
             ELSE IF g = <<".", ".">>
                  THEN Walk(Tail(segs), IF stack = <<>> THEN stack ELSE Take(stack, Len(stack) - 1))
             ELSE Walk(Tail(segs), Append(stack, g))

RECURSIVE Rooted(_)
Rooted(stack) == IF stack = <<>> THEN <<>> ELSE <<"/">> \o Head(stack) \o Rooted(Tail(stack))

\* the path a POSIX resolve of base path then resource path names, and the trailing
\* separator of the resource string restored
ExpectedPath(res, base) ==
    LET r     == ParseUrl(res).pathname
        b     == ParseUrl(base).pathname
        start == IF IsAbsolute(r) THEN r
                 ELSE IF IsAbsolute(b) THEN b \o <<"/">> \o r
                 ELSE Cwd \o <<"/">> \o b \o <<"/">> \o r
        dir   == Rooted(Walk(Segments(start, 1, <<>>), <<>>))
        path  == IF dir = <<>> THEN <<"/">> ELSE dir
    IN  IF EndsWithCh(res, "/") /\ ~EndsWithCh(path, "/") THEN path \o <<"/">> ELSE path

\* C1: when getUrl is given a non-empty resource and a non-empty base and returns, the
\* path of the URL it returns is the POSIX resolution of the base's path and then the
\* resource's path (an absolute resource path replaces the base path, a relative one
\* is appended to it, '.' and '..' are resolved), with exactly one '/' appended when
\* the resource string ends with '/' and the resolved path does not.
C1_PathIsPosixResolve ==
    (BothGiven /\ ~threw) => ParseUrl(returned).pathname = ExpectedPath(resource, baseUrl)

\* C1 witness: a relative resource with '..' segments and a trailing '/', resolved
\* against a base that has its own path
C1_Witness ==
    /\ BothGiven /\ ~threw
    /\ resource = <<"a", "/", ".", ".", "/", ".", ".", "/", "c", "/">>
    /\ ParseUrl(baseUrl).pathname = <<"/", "b">>
    /\ ParseUrl(returned).pathname = <<"/", "c", "/">>

Authority(u) == <<u.auth, u.host>>

\* C2: with both arguments non-empty, the returned URL's scheme is the resource's when
\* it has one and else the base's, and its authority (userinfo, host and port as one
\* field) is the resource's when the resource names a host and else the base's.
C2_AuthorityIsOneField ==
    (BothGiven /\ ~threw) =>
        LET r == ParseUrl(resource)
            b == ParseUrl(baseUrl)
            g == ParseUrl(returned)
        IN  /\ g.protocol = Or(r.protocol, b.protocol)
            /\ Authority(g) = IF r.host # <<>> THEN Authority(r) ELSE Authority(b)

\* C9: without query parameters, getUrl returns the resource unchanged when the base
\* is absent, and the base unchanged when the resource is absent and the base is not.
C9_AbsentArgumentReturnsOther ==
    (upc = "done" /\ ~queryParameters.given) =>
        /\ baseUrl = <<>> => (~threw /\ returned = resource)
        /\ (resource = <<>> /\ baseUrl # <<>>) => (~threw /\ returned = baseUrl)

\* C9 witness: an absent resource with a bare-host base, which comes back unchanged
\* (formatting it would have added a '/')
C9_Witness ==
    /\ upc = "done" /\ ~queryParameters.given
    /\ resource = <<>>
    /\ baseUrl = HTTP \o <<"/", "/", "m">>
    /\ returned = baseUrl

\* key, assignment character, value for each pair, the separator between pairs
RECURSIVE JoinPairs(_, _, _)
JoinPairs(ps, sep, eq) ==
    IF ps = <<>> THEN <<>>
    ELSE EncodeURIComponent(Head(ps)[1]) \o eq \o EncodeURIComponent(Head(ps)[2])
         \o (IF Tail(ps) = <<>> THEN <<>> ELSE sep \o JoinPairs(Tail(ps), sep, eq))

\* C10: attaching query parameters strips one trailing '?' from the URL, if there is
\* one, and appends exactly one '?' and then the pairs (escaped key, assignment
\* character, escaped value) with the separator between them; for the empty mapping
\* the result is the stripped URL followed by '?'.
C10_QueryAttached ==
    (upc = "done" /\ queryParameters.given /\ ~threw) =>
        LET u   == requestUrl
            url == IF Len(u) > 0 /\ u[Len(u)] = "?" THEN SubSeq(u, 1, Len(u) - 1) ELSE u
            sep == IF queryParameters.sep = <<>> THEN <<"&">> ELSE queryParameters.sep
            eq  == IF queryParameters.eq = <<>> THEN <<"=">> ELSE queryParameters.eq
        IN  returned = url \o <<"?">> \o JoinPairs(queryParameters.params, sep, eq)

\* C10 witness: an empty mapping attached to a URL that ends with '?'
C10_Witness ==
    /\ upc = "done" /\ queryParameters.given /\ ~threw
    /\ queryParameters.params = <<>>
    /\ EndsWithCh(requestUrl, "?")
    /\ returned = requestUrl

-----------------------------------------------------------------------------
(* Claims about the REST facade's response processing                      *)

\* the body was read and parsed as JSON
BodyParsed == ~response.readFails /\ response.contents # <<>> /\ JsonParse(response.contents).ok

FailedRequest(code) == "Failed request: (" \o CodeText(code) \o ")"

ErrorStatus == response.statusCode > MaxSuccess /\ response.statusCode # NotFound

\* C4: for every verb and every 404 response, whatever its body, the call resolves and
\* never rejects, and the object it resolves with (the one the caller holds) has
\* statusCode 404 and a null or absent result.
C4_NotFoundResolvesWithNull ==
    (ppc \in {"readBody", "end"} /\ response.statusCode = NotFound) =>
        /\ promise = "fulfilled"
        /\ caller.state # "rejected"
        /\ rres.statusCode = NotFound
        /\ rres.result \in {Undefined, Null}

\* C5 as stated: for a status above 299 other than 404 the call rejects with an error
\* that carries the status and a non-empty message, which is the body's message field
\* whenever the body parsed as JSON and has a message field, and the generic
\* 'Failed request: (<code>)' otherwise.
C5_MessageIsAnyMessageField ==
    (ppc = "end" /\ ErrorStatus) =>
        /\ promise = "rejected"
        /\ caller.state # "resolved"
        /\ err.statusCode = response.statusCode
        /\ err.message # ""
        /\ err.message =
             IF BodyParsed /\ JsonParse(response.contents).value.t = "object"
                /\ \E i \in 1..Len(JsonParse(response.contents).value.fields) :
                       JsonParse(response.contents).value.fields[i][1] = "message"
             THEN StringOf(GetField(JsonParse(response.contents).value, "message"))
             ELSE FailedRequest(response.statusCode)

\* C5 as amended: for a status above 299 other than 404 the call rejects with an error
\* that carries the status and a non-empty message, which is the body's message field
\* whenever the body parsed as JSON and its message field is truthy (a non-empty
\* string, a non-zero number), and the generic 'Failed request: (<code>)' otherwise.
C5_MessageIsTruthyMessageField ==
    (ppc = "end" /\ ErrorStatus) =>
        /\ promise = "rejected"
        /\ caller.state # "resolved"
        /\ caller.state = "rejected" => caller.statusCode = response.statusCode
        /\ err.statusCode = response.statusCode
        /\ err.message # ""
        /\ err.message =
             IF BodyParsed /\ JsonParse(response.contents).value.t = "object"
                /\ GetField(JsonParse(response.contents).value, "message")
                       \notin {Undefined, Null,
                               [t |-> "string", prim |-> "", fields |-> <<>>],
                               [t |-> "number", prim |-> "0", fields |-> <<>>],
                               [t |-> "boolean", prim |-> "false", fields |-> <<>>]}
             THEN StringOf(GetField(JsonParse(response.contents).value, "message"))
             ELSE FailedRequest(response.statusCode)

\* C5 witness: a 500 whose JSON body carries a message, rejected with that message
C5_Witness ==
    /\ ppc = "end" /\ response.statusCode = 500
    /\ response.contents = <<"{", "\"id\"", ":", "7", ",", "\"message\"", ":", "\"X\"", "}">>
    /\ caller.state = "rejected"
    /\ err.message = "X"

\* C6: for every verb and every response with a status of at most 299, the call
\* resolves with the response's status; with a non-empty JSON body the result is the
\* parsed body, or what the responseProcessor returned for the parsed body when one is
\* given (and returns); with an empty body the result is absent.
C6_SuccessResolvesWithParsedBody ==
    (ppc = "end" /\ response.statusCode <= MaxSuccess) =>
        /\ promise = "fulfilled"
        /\ rres.statusCode = response.statusCode
        /\ caller.state # "rejected"
        /\ caller.state = "resolved" =>
               caller.statusCode = rres.statusCode /\ caller.result = rres.result
        /\ (BodyParsed /\ options.responseProcessor = "none") =>
               rres.result = JsonParse(response.contents).value
        /\ (BodyParsed /\ options.responseProcessor \in {"wrap", "toNull"}) =>
               rres.result = ApplyProcessor(options.responseProcessor,
                                            JsonParse(response.contents).value)
        /\ (~response.readFails /\ response.contents = <<>>) => rres.result = Undefined

\* C6 witness: a 200 with a JSON object body and a responseProcessor, the caller
\* holding the processor's value
C6_Witness ==
    /\ ppc = "end" /\ response.statusCode = 200
    /\ response.contents = <<"{", "\"id\"", ":", "7", "}">>
    /\ options.responseProcessor = "wrap"
    /\ caller.state = "resolved"
    /\ caller.result = [t |-> "processed", prim |-> "object",
                        fields |-> << <<"id", [t |-> "number", prim |-> "7", fields |-> <<>>]>> >>]

-----------------------------------------------------------------------------
(* Claims about the dispatcher and the credential handlers                 *)

Sends(kind) == { i \in 1..Len(wire) : wire[i].kind = kind }

Settled == dpc \in {"done", "error"}

Challenged ==
    /\ first.statusCode = 401
    /\ \E i \in 1..Len(handlers) : CanHandleAuthentication(handlers[i], first)

AsFinal(r) == [kind |-> "response", statusCode |-> r.statusCode, www |-> r.www]

\* C3: the request is sent once; a 401 that some handler claims goes to the first such
\* handler in registration order, whose handleAuthentication runs exactly once and whose
\* response is the final response even when it is a 401 again; a 401 no handler claims is
\* returned as it is, without an error; handleAuthentication never runs twice.
C3_OneChallengeRound ==
    /\ Len(authCalls) <= 1
    /\ Cardinality(Sends("request")) <= 1
    /\ Settled =>
         /\ Cardinality(Sends("request")) = 1
         /\ IF Challenged
            THEN /\ Len(authCalls) = 1
                 /\ CanHandleAuthentication(handlers[authCalls[1]], first)
                 /\ \A j \in 1..(authCalls[1] - 1) : ~CanHandleAuthentication(handlers[j], first)
                 /\ dpc = "done" => final = AsFinal(handled)
            ELSE /\ authCalls = <<>>
                 /\ dpc = "done"
                 /\ final = AsFinal(first)

C3_Witness ==
    /\ dpc = "done"
    /\ Cardinality(Claims(handlers, first)) = 2
    /\ authCalls = <<1>>
    /\ handled.statusCode = 401
    /\ final.statusCode = 401

TargetMatchesPattern == \E pt \in patterns : Matches(target, pt)

RECURSIVE Decorated(_, _)
Decorated(hs, h) == IF hs = <<>> THEN h ELSE Decorated(Tail(hs), PrepareHeaders(Head(hs), h))

\* C7: prepareRequest runs exactly once on every handler, in registration order, and the
\* request is sent only after all of them; for a target a presigned pattern matches no
\* prepareRequest runs and the request goes out without the handlers' credentials.
C7_PreparedBeforeSend ==
    /\ prepared = [i \in 1..Len(prepared) |-> i]
    /\ Len(prepared) <= Len(handlers)
    /\ TargetMatchesPattern =>
         /\ prepared = <<>>
         /\ \A i \in Sends("request") : wire[i].headers = NoHeaders
    /\ ~TargetMatchesPattern =>
         \A i \in Sends("request") :
             /\ Len(prepared) = Len(handlers)
             /\ wire[i].headers = Decorated(handlers, NoHeaders)

C7_Witness ==
    /\ ~TargetMatchesPattern
    /\ Sends("request") # {}
    /\ handlers = <<"Bearer", "Basic">>
    /\ prepared = <<1, 2>>
    /\ wire[1].headers.Authorization = "Basic user:pass"

Handshake == <<"request", "type1", "type3">>

Interrupted == interruptedAt # -1

HandshakeInOrder ==
    /\ Len(wire) <= Len(Handshake)
    /\ \A i \in 1..Len(wire) : wire[i].kind = Handshake[i]
    /\ \A i \in Sends("type1") :
           /\ wire[i].headers.Connection = "keep-alive"
           /\ Challenged
    /\ \A i \in Sends("type3") :
           /\ type2
           /\ wire[i].headers.Connection = "Close"
           /\ \A j \in Sends("type1") : wire[j].conn = wire[i].conn
           /\ Interrupted => interruptedAt >= i
    /\ (dpc = "done" /\ authCalls # <<>>) =>
           /\ Len(wire) = Len(Handshake)
           /\ ~Interrupted
           /\ final = AsFinal(handled)
    /\ Interrupted =>
           /\ Len(wire) = interruptedAt
           /\ dpc \in {"awaitType2", "type3", "awaitFinal", "error"}
           /\ dpc = "error" => final.kind = "error"

\* C8: a challenged request with an NTLM handler goes: the unauthenticated request, the
\* Type-1 with Connection: keep-alive, the Type-2 challenge, the Type-3 with Connection:
\* Close on the same connection, the final response; no Type-3 before the Type-2; the
\* exchange completes only over a connection that lasted; after an interruption the one step
\* left is the error, and nothing is sent again.
C8_NtlmHandshakeOrder ==
    /\ []HandshakeInOrder
    /\ [][Interrupted => (dpc' = "error" /\ final'.kind = "error" /\ wire' = wire)]_vars

C8_Witness ==
    /\ dpc = "done"
    /\ handlers = <<"NTLM">>
    /\ Len(wire) = 3
    /\ type2
    /\ final.statusCode = 200

-----------------------------------------------------------------------------
(* Claims about the URL of a verb call                                     *)

\* C11: for every verb the URL handed to the HTTP client is the resource resolved
\* against the client's base URL, and when the call's options supply query parameters
\* it is that resolved URL with the parameters attached by the query composer.
C11_VerbUrlIsResolvedWithQuery ==
    (upc = "done" /\ verb \in Verbs /\ ~threw) =>
        returned = IF queryParameters.given
                   THEN prepareUrlWithQueryParams(ResolveRequestUrl(resource, baseUrl).url,
                                                  queryParameters)
                   ELSE ResolveRequestUrl(resource, baseUrl).url

-----------------------------------------------------------------------------
(* More claims about the REST facade's response processing                 *)

\* readBody failed, or JSON.parse raised on what it gave
Unparsable == response.readFails \/ ~JsonParse(response.contents).ok

\* C12: for every verb and every response with a status of at most 299 whose body
\* cannot be parsed as JSON, the call resolves, never rejects, with the response's
\* status and with no result.
C12_UnparsableSuccessResolves ==
    (ppc = "end" /\ response.statusCode <= MaxSuccess /\ Unparsable) =>
        /\ promise = "fulfilled"
        /\ rejectCalls = 0
        /\ err = NoError
        /\ rres.statusCode = response.statusCode
        /\ rres.result = Undefined
        /\ caller.state # "rejected"
        /\ caller.state = "resolved" =>
               caller.statusCode = response.statusCode /\ caller.result = Undefined

\* C12 witness: a 200 with an HTML body, the caller resumed
C12_Witness ==
    /\ ppc = "end" /\ response.statusCode = 200
    /\ response.contents = <<"<html>">>
    /\ options.responseProcessor = "wrap"
    /\ caller.state = "resolved"

FalsyValues ==
    { Undefined, Null,
      [t |-> "string", prim |-> "", fields |-> <<>>],
      [t |-> "number", prim |-> "0", fields |-> <<>>],
      [t |-> "boolean", prim |-> "false", fields |-> <<>>] }

\* what a resolving call would have had as its result for this response and options
WouldBeResult ==
    IF ~BodyParsed \/ options.responseProcessor = "throws" THEN Undefined
    ELSE IF options.responseProcessor = "none" THEN JsonParse(response.contents).value
    ELSE ApplyProcessor(options.responseProcessor, JsonParse(response.contents).value)

-----------------------------------------------------------------------------
(* More claims about getUrl                                                *)

\* C14 as stated: with both arguments non-empty, each of scheme, authority, query and
\* fragment of the merged URL is the resource's when the resource has it and the
\* base's otherwise.
C14_EveryComponentInherited ==
    (BothGiven /\ ~threw) =>
        LET r == ParseUrl(resource)
            b == ParseUrl(baseUrl)
            g == ParseUrl(requestUrl)
        IN  /\ g.protocol = (IF r.protocol # <<>> THEN r.protocol ELSE b.protocol)
            /\ <<g.auth, g.host>> = (IF r.host # <<>> THEN <<r.auth, r.host>> ELSE <<b.auth, b.host>>)
            /\ g.search = (IF r.search # <<>> THEN r.search ELSE b.search)
            /\ g.hash = (IF r.hash # <<>> THEN r.hash ELSE b.hash)

\* C14 as amended: with both arguments non-empty, the scheme and the host (with its
\* port) of the merged URL are the resource's when the resource has them and the base's
\* otherwise; the query and the fragment are the resource's own, present or not, and
\* the base's are never handed down.
C14_SchemeAndHostInherited ==
    (BothGiven /\ ~threw) =>
        LET r == ParseUrl(resource)
            b == ParseUrl(baseUrl)
            g == ParseUrl(requestUrl)
        IN  /\ g.protocol = (IF r.protocol # <<>> THEN r.protocol ELSE b.protocol)
            /\ g.host = (IF r.host # <<>> THEN r.host ELSE b.host)
            /\ g.search = r.search
            /\ g.hash = r.hash

\* C14 witness: a relative resource against a base with a query and a fragment
C14_Witness ==
    /\ BothGiven /\ ~threw
    /\ resource = <<"a">>
    /\ baseUrl = HTTP \o <<"/", "/", "m", "/", "b", "?", "k", "#", "g">>
    /\ requestUrl = HTTP \o <<"/", "/", "m", "/", "b", "/", "a">>

-----------------------------------------------------------------------------
(* Claims about the headers of verb calls                                  *)

\* the headers of a call of verb v, from the options as the caller wrote them
ExpectedHeaders(v) ==
    [Accept      |-> IF sharedOptions.passed /\ sharedOptions.acceptHeader # ""
                     THEN sharedOptions.acceptHeader ELSE "application/json",
     ContentType |-> IF asWritten.ContentType # "" THEN asWritten.ContentType
                     ELSE IF v \in BodyBearing THEN "application/json; charset=utf-8" ELSE "",
     XCustom     |-> asWritten.XCustom]

\* C15: verb calls given the same options object share no mutable state: the headers
\* each call sends depend only on its verb and on the options as the caller wrote
\* them; a get, del or options call sends no Content-Type the caller did not write,
\* whatever other calls were made; the caller's additionalHeaders object is after a
\* call what it was before.
C15_CallsShareNoState ==
    /\ \A i \in 1..Len(sent) :
           /\ sent[i].headers = ExpectedHeaders(sent[i].verb)
           /\ (sent[i].verb \notin BodyBearing /\ asWritten.ContentType = "") =>
                  sent[i].headers.ContentType = ""
    /\ additionalHeaders = asWritten

-----------------------------------------------------------------------------
(* Claims about the settlement of _processResponse's promise               *)

\* C16: _processResponse settles its promise by exactly one call of resolve or reject,
\* and nothing happens after the settlement: no second resolve or reject, no reading of
\* the body and no responseProcessor call (the promise is settled only at the end of
\* the executor), and the object the caller received keeps the statusCode and result it
\* had when the promise was settled.
C16_SettledExactlyOnce ==
    /\ resolveCalls + rejectCalls <= 1
    /\ ppc = "end" => resolveCalls + rejectCalls = 1
    /\ promise # "pending" => ppc = "end"
    /\ caller.state = "resolved" =>
           caller.statusCode = rres.statusCode /\ caller.result = rres.result

=============================================================================
